---- MODULE Spec2Model ----
(***************************************************************************)
(* Model of the BuyTicketModal component                                   *)
(* (projects/nft_bookings-frontend/src/components/BuyTicketModal.tsx).     *)
(*                                                                         *)
(* The component keeps four pieces of React state (eventId,                *)
(* receiverAddress, loading, ticketPrice), reads the wallet session        *)
(* (activeAddress, transactionSigner) and the openModal prop, and runs two *)
(* asynchronous operations: the price lookup of the useEffect and the      *)
(* purchase submission of handleBuyTicket.  Every action below is one      *)
(* run-to-completion step of the event loop: an event handler or a promise *)
(* continuation, together with the re-render and the effect run that its   *)
(* state updates cause.                                                    *)
(***************************************************************************)
EXTENDS Integers, Sequences, FiniteSets, TLC

VARIABLES
    eventId,            \* useState<string>(''): the text of the Event ID input
    receiverAddress,    \* useState<string>(DEFAULT_RECEIVER)
    loading,            \* useState<boolean>(false)
    ticketPrice,        \* useState<number | null>(null): Null or a double
    activeAddress,      \* useWallet().activeAddress
    transactionSigner,  \* useWallet().transactionSigner
    openModal,          \* the openModal prop
    priceFetches,       \* getTicketPrice() calls in flight, in issue order
    submissions,        \* handleBuyTicket invocations suspended at an await
    handler,            \* the handler or continuation that ran last
    effects,            \* the outward calls that step made, in order
    sinceSuccess,       \* history: a booking succeeded and the Event ID
                        \* input was not edited since
    lastLookup          \* history: what the most recent run of the price
                        \* effect came to: Pending, Null or the price

vars == <<eventId, receiverAddress, loading, ticketPrice, activeAddress,
          transactionSigner, openModal, priceFetches, submissions,
          handler, effects, sinceSuccess, lastLookup>>

\* null or undefined where the code holds a string, and where it holds a
\* number or an object.
NULL == "null"

Null == [null |-> TRUE]

\* A getTicketPrice() call that has not settled yet.
Pending == [pending |-> TRUE]

(***************************************************************************)
(* JavaScript numbers.  ticketPrice is an IEEE-754 double: priceMicro /    *)
(* 1_000_000 and ticketPrice * 1_000_000 round to the nearest double, ties *)
(* to even.  A double is [sign, mant, exp] with value                      *)
(* (-1)^sign * mant * 2^exp, mant a sequence of MantBits bits, most        *)
(* significant first and leading bit 1; zero has the empty mantissa.       *)
(***************************************************************************)
MantBits == 53

MicroPerAlgo == 1000000

Zero == [sign |-> 0, mant |-> <<>>, exp |-> 0]

\* The arithmetic below works on limbs of 10 bits so that every intermediate
\* integer stays below 2^31.
Limb == [bits |-> 10, base |-> 1024, count |-> 8]

\* x as n bits, most significant first (0 <= x < 2^n, n <= 30).
Bits(x, n) == [i \in 1..n |-> (x \div 2^(n - i)) % 2]

LimbVal(b) ==
    b[1] * 512 + b[2] * 256 + b[3] * 128 + b[4] * 64 + b[5] * 32
    + b[6] * 16 + b[7] * 8 + b[8] * 4 + b[9] * 2 + b[10]

HasOne(s) == \E i \in 1..Len(s) : s[i] = 1

\* bits + 1; the result is one bit longer when every bit was 1.
IncBits(bits) ==
    IF \A i \in 1..Len(bits) : bits[i] = 1
    THEN <<1>> \o [i \in 1..Len(bits) |-> 0]
    ELSE LET z == CHOOSE i \in 1..Len(bits) :
                      bits[i] = 0 /\ \A j \in (i + 1)..Len(bits) : bits[j] = 1
         IN  [i \in 1..Len(bits) |->
                 IF i < z THEN bits[i] ELSE IF i = z THEN 1 ELSE 0]

\* Round to nearest, ties to even: mant holds MantBits bits, guard is the
\* next bit and sticky tells whether anything non-zero follows it.
RoundNearestEven(sign, mant, guard, sticky, exp) ==
    IF guard = 1 /\ (sticky \/ mant[MantBits] = 1)
    THEN LET inc == IncBits(mant) IN
         IF Len(inc) > MantBits
         THEN [sign |-> sign, mant |-> SubSeq(inc, 1, MantBits), exp |-> exp + 1]
         ELSE [sign |-> sign, mant |-> inc, exp |-> exp]
    ELSE [sign |-> sign, mant |-> mant, exp |-> exp]

\* The double nearest to the positive binary number b, whose bit b[i] has
\* weight 2^(intLen - i); sticky tells whether non-zero bits were cut off
\* after the end of b.
Normalize(sign, b, intLen, sticky) ==
    LET p == b \o [i \in 1..(MantBits + 1) |-> 0]
        f == CHOOSE i \in 1..Len(b) : b[i] = 1 /\ \A j \in 1..(i - 1) : b[j] = 0
    IN  RoundNearestEven(sign,
                         SubSeq(p, f, f + MantBits - 1),
                         p[f + MantBits],
                         sticky \/ HasOne(SubSeq(p, f + MantBits + 1, Len(p))),
                         intLen - (f + MantBits - 1))

\* k limbs of the binary expansion of r / d (0 <= r < d <= 2^20), and the
\* remainder left after them.
RECURSIVE FracLimbs(_, _, _)
FracLimbs(r, d, k) ==
    IF k = 0 THEN [bits |-> <<>>, rem |-> r]
    ELSE LET t    == r * Limb.base
             rest == FracLimbs(t % d, d, k - 1)
         IN  [bits |-> Bits(t \div d, Limb.bits) \o rest.bits, rem |-> rest.rem]

Abs(n) == IF n < 0 THEN -n ELSE n

\* The double nearest to n / d, for integers |n| < 2^30 and 0 < d <= 2^20
\* (both exact doubles).
DivDouble(n, d) ==
    IF n = 0 THEN Zero
    ELSE LET frac == FracLimbs(Abs(n) % d, d, Limb.count) IN
         Normalize(IF n < 0 THEN 1 ELSE 0,
                   Bits(Abs(n) \div d, 30) \o frac.bits, 30, frac.rem # 0)

\* The integer n as a double (exact for |n| < 2^30).
DoubleOfInt(n) == DivDouble(n, 1)

\* bits * c + carry as a bit sequence, for bits a whole number of limbs and a
\* natural c < 2^20.
RECURSIVE MulLimbs(_, _, _)
MulLimbs(bits, c, carry) ==
    IF bits = <<>> THEN Bits(carry, 2 * Limb.bits)
    ELSE LET n == Len(bits)
             t == LimbVal(SubSeq(bits, n - Limb.bits + 1, n)) * c + carry
         IN  MulLimbs(SubSeq(bits, 1, n - Limb.bits), c, t \div Limb.base)
                 \o Bits(t % Limb.base, Limb.bits)

\* The double nearest to x * c, for a double x and a natural 0 < c < 2^20.
MulDouble(x, c) ==
    IF x.mant = <<>> THEN Zero
    ELSE LET prod == MulLimbs(<<0, 0, 0, 0, 0, 0, 0>> \o x.mant, c, 0)
             r    == Normalize(x.sign, prod, Len(prod), FALSE)
         IN  [r EXCEPT !.exp = @ + x.exp]

\* x <= 0 on doubles.
LeqZero(x) == x.mant = <<>> \/ x.sign = 1

\* JavaScript truthiness of a number | null: null and 0 are falsy.
Truthy(x) == x # Null /\ x.mant # <<>>

(***************************************************************************)
(* The values the environment supplies.                                    *)
(***************************************************************************)
\* In-flight getTicketPrice() calls and handleBuyTicket invocations the model
\* follows at once.
MaxPriceFetches == 2

MaxSubmissions == 2

DefaultReceiver == "2ZTFJNDXPWDETGJQQN33HAATRHXZMBWESKO2AUFZUHERH2H3TG4XTNPL4Y"

\* The text of the <input type="number">, as a sequence of characters.
EventIds == {<<>>, <<"4", "2">>, <<"0", "7">>}

ReceiverAddresses == {"", DefaultReceiver, "RECEIVER_B"}

Addresses == {NULL, "ADDR_A"}

Signers == {NULL, "signer"}

\* What getTicketPrice() may resolve with, in microAlgos.  The read is opaque
\* to the component, which guards against a non-positive price (line 79).
PriceMicros == {0, 1000000, 4100000, -1000000}

\* What a remote call may reject with: an Error, or a thrown value that is
\* not an instance of Error.
Failures == {[isError |-> TRUE, message |-> "network down"],
             [isError |-> FALSE, message |-> "request rejected"]}

\* What bookTicket() may resolve with.
TicketIds == {"1001"}

(***************************************************************************)
(* Helpers of the component.                                               *)
(***************************************************************************)
DigitValue(ch) ==
    CASE ch = "0" -> 0 [] ch = "1" -> 1 [] ch = "2" -> 2 [] ch = "3" -> 3
      [] ch = "4" -> 4 [] ch = "5" -> 5 [] ch = "6" -> 6 [] ch = "7" -> 7
      [] ch = "8" -> 8 [] ch = "9" -> 9

\* Number(eventId) on a string of decimal digits; Number('') is 0.
RECURSIVE Number(_)
Number(s) ==
    IF s = <<>> THEN 0
    ELSE 10 * Number(SubSeq(s, 1, Len(s) - 1)) + DigitValue(s[Len(s)])

Call(name, args) == [call |-> name, args |-> args]

EnqueueSnackbar(message, variant) == Call("enqueueSnackbar", <<message, variant>>)

\* useMemo of lines 35-38.
AppFactory(address, signer) ==
    IF address = NULL \/ signer = NULL THEN Null
    ELSE [sender |-> address, signer |-> signer]

\* getAppClient, lines 40-43: the client, or the Error it throws.
GetAppClient(address, signer) ==
    IF AppFactory(address, signer) = Null
    THEN [threw |-> TRUE,
          error |-> [isError |-> TRUE,
                     message |-> "Wallet not connected or factory not initialized"]]
    ELSE [threw |-> FALSE, error |-> Null]

\* Mutant: the submit control is disabled only while no price is shown.
DisabledIgnoresLoading == ~Truthy(ticketPrice)

\* The submit control's disabled attribute, line 158.
Disabled == loading \/ ~Truthy(ticketPrice)

\* Line 59.
FetchErrorMessage(e) ==
    IF e.isError THEN e.message ELSE "Unable to fetch ticket price"

\* Mutant: the notification never carries the failure's message.
BookingErrorMessageGeneric(e) == "Error booking ticket: Unknown error"

\* Lines 110-111.
BookingErrorMessage(e) ==
    "Error booking ticket: " \o (IF e.isError THEN e.message ELSE "Unknown error")

\* The catch block of fetchTicketPrice, lines 56-60.
FetchCatch(e) ==
    <<Call("console.error", <<"Error fetching ticket price:", e.message>>),
      EnqueueSnackbar(FetchErrorMessage(e), "error")>>

\* Mutant: the catch block logs the failure and shows nothing.
BookingCatchSilent(e) ==
    <<Call("console.error", <<"Error booking ticket:", e.message>>)>>

\* The catch block of handleBuyTicket, lines 108-111.
BookingCatch(e) ==
    <<Call("console.error", <<"Error booking ticket:", e.message>>),
      EnqueueSnackbar(BookingErrorMessage(e), "error")>>

\* algosdk.makePaymentTxnWithSuggestedParamsFromObject, lines 92-97.
MakePaymentTxn(sender, receiver, amount, suggestedParams) ==
    [sender |-> sender, receiver |-> receiver, amount |-> amount,
     suggestedParams |-> suggestedParams]

\* Mutant: the early return of lines 48-51 does not reset the price.
FetchTicketPriceKeepsPrice(eid, address, signer) ==
    IF eid = <<>> \/ address = NULL \/ signer = NULL
    THEN [setNull |-> FALSE, fetch |-> FALSE, calls |-> <<>>]
    ELSE [setNull |-> FALSE, fetch |-> TRUE,
          calls |-> <<Call("getTicketPrice", <<>>)>>]

\* The synchronous part of fetchTicketPrice (lines 47-54) for the values of a
\* render: what it does to ticketPrice, whether it leaves a getTicketPrice()
\* call in flight, and the outward calls it makes.
FetchTicketPrice(eid, address, signer) ==
    IF eid = <<>> \/ address = NULL \/ signer = NULL
    THEN [setNull |-> TRUE, fetch |-> FALSE, calls |-> <<>>]
    ELSE IF GetAppClient(address, signer).threw
    THEN [setNull |-> TRUE, fetch |-> FALSE,
          calls |-> FetchCatch(GetAppClient(address, signer).error)]
    ELSE [setNull |-> FALSE, fetch |-> TRUE,
          calls |-> <<Call("getTicketPrice", <<>>)>>]

\* Whether a render sees a new algodClient (lines 24, 30-33): the memo is
\* keyed on the object getAlgodConfigFromViteEnvironment() returns, which is
\* taken to be the same from render to render.
AlgodClientChanged == FALSE

\* Whether a render with the given wallet values sees a new getAppClient
\* (lines 35-43).
GetAppClientChanged(address, signer) ==
    AlgodClientChanged \/ address # activeAddress \/ signer # transactionSigner

\* The effect of lines 46-64 after a render with the given values: it runs
\* when one of its dependencies (line 64) differs from the render before.
PriceEffect(eid, address, signer) ==
    IF \/ eid # eventId
       \/ address # activeAddress
       \/ signer # transactionSigner
       \/ GetAppClientChanged(address, signer)
    THEN FetchTicketPrice(eid, address, signer)
    ELSE [setNull |-> FALSE, fetch |-> FALSE, calls |-> <<>>]

\* Whether the i-th call in flight was issued by the most recent run of the
\* effect (calls are kept in issue order).
IsLatest(i) == lastLookup = Pending /\ i = Len(priceFetches)

\* A sequence without its i-th element.
Remove(seq, i) == SubSeq(seq, 1, i - 1) \o SubSeq(seq, i + 1, Len(seq))

(***************************************************************************)
(* Initial state: the component as mounted, the dialog not yet opened, no  *)
(* wallet session.                                                         *)
(***************************************************************************)
Init ==
    /\ eventId = <<>>
    /\ receiverAddress = DefaultReceiver
    /\ loading = FALSE
    /\ ticketPrice = Null
    /\ activeAddress = NULL
    /\ transactionSigner = NULL
    /\ openModal = FALSE
    /\ priceFetches = <<>>
    /\ submissions = <<>>
    /\ handler = [name |-> "mount", arg |-> Null]
    /\ effects = <<>>
    /\ sinceSuccess = FALSE
    /\ lastLookup = Null

(***************************************************************************)
(* User input.  The dialog is shown, and so takes input, only while        *)
(* openModal holds (line 118).                                             *)
(***************************************************************************)
\* onChange of the Event ID input, line 129, then the effect.
ChangeEventId(v) ==
    LET eff == PriceEffect(v, activeAddress, transactionSigner) IN
    /\ openModal
    /\ v # eventId
    /\ eff.fetch => Len(priceFetches) < MaxPriceFetches
    /\ eventId' = v
    /\ ticketPrice' = IF eff.setNull THEN Null ELSE ticketPrice
    /\ priceFetches' =
           IF eff.fetch
           THEN Append(priceFetches, [eventId |-> v, activeAddress |-> activeAddress])
           ELSE priceFetches
    /\ handler' = [name |-> "setEventId", arg |-> v]
    /\ effects' = eff.calls
    /\ sinceSuccess' = FALSE
    /\ lastLookup' = IF eff.fetch THEN Pending ELSE Null
    /\ UNCHANGED <<receiverAddress, loading, activeAddress, transactionSigner,
                   openModal, submissions>>

\* onChange of the Receiver Address input, line 141.
ChangeReceiverAddress(v) ==
    /\ openModal
    /\ v # receiverAddress
    /\ receiverAddress' = v
    /\ handler' = [name |-> "setReceiverAddress", arg |-> v]
    /\ effects' = <<>>
    /\ UNCHANGED <<eventId, loading, ticketPrice, activeAddress,
                   transactionSigner, openModal, priceFetches, submissions,
                   sinceSuccess, lastLookup>>

\* The wallet session changes (useWallet, line 22), then the effect.
WalletChange(address, signer) ==
    LET eff == PriceEffect(eventId, address, signer) IN
    /\ <<address, signer>> # <<activeAddress, transactionSigner>>
    /\ eff.fetch => Len(priceFetches) < MaxPriceFetches
    /\ activeAddress' = address
    /\ transactionSigner' = signer
    /\ ticketPrice' = IF eff.setNull THEN Null ELSE ticketPrice
    /\ priceFetches' =
           IF eff.fetch
           THEN Append(priceFetches, [eventId |-> eventId, activeAddress |-> address])
           ELSE priceFetches
    /\ handler' = [name |-> "useWallet", arg |-> <<address, signer>>]
    /\ effects' = eff.calls
    /\ lastLookup' = IF eff.fetch THEN Pending ELSE Null
    /\ UNCHANGED <<eventId, receiverAddress, loading, openModal, submissions,
                   sinceSuccess>>

\* The Close control, line 153: closeModal() of the parent.
CloseClicked ==
    /\ openModal
    /\ openModal' = FALSE
    /\ handler' = [name |-> "closeModal", arg |-> Null]
    /\ effects' = <<Call("closeModal", <<>>)>>
    /\ UNCHANGED <<eventId, receiverAddress, loading, ticketPrice, activeAddress,
                   transactionSigner, priceFetches, submissions,
                   sinceSuccess, lastLookup>>

\* The parent shows the dialog again.
OpenModal ==
    /\ ~openModal
    /\ openModal' = TRUE
    /\ handler' = [name |-> "openModal", arg |-> Null]
    /\ effects' = <<>>
    /\ UNCHANGED <<eventId, receiverAddress, loading, ticketPrice, activeAddress,
                   transactionSigner, priceFetches, submissions,
                   sinceSuccess, lastLookup>>

(***************************************************************************)
(* The price lookup's continuations, lines 54-61.                          *)
(***************************************************************************)
\* Mutant: the fetched micro-unit value is stored without the division.
TicketPriceResolvedNoDivision(i, priceMicro) ==
    /\ i \in 1..Len(priceFetches)
    /\ ticketPrice' = DoubleOfInt(priceMicro)
    /\ priceFetches' = Remove(priceFetches, i)
    /\ handler' = [name |-> "getTicketPrice.resolved", arg |-> priceMicro]
    /\ lastLookup' = IF IsLatest(i) THEN DoubleOfInt(priceMicro) ELSE lastLookup
    /\ effects' = <<>>
    /\ UNCHANGED <<eventId, receiverAddress, loading, activeAddress,
                   transactionSigner, openModal, submissions, sinceSuccess>>

\* await appClient.getTicketPrice() resolves with priceMicro: line 55.
TicketPriceResolved(i, priceMicro) ==
    /\ i \in 1..Len(priceFetches)
    /\ ticketPrice' = DivDouble(priceMicro, MicroPerAlgo)
    /\ priceFetches' = Remove(priceFetches, i)
    /\ handler' = [name |-> "getTicketPrice.resolved", arg |-> priceMicro]
    /\ lastLookup' = IF IsLatest(i) THEN DivDouble(priceMicro, MicroPerAlgo) ELSE lastLookup
    /\ effects' = <<>>
    /\ UNCHANGED <<eventId, receiverAddress, loading, activeAddress,
                   transactionSigner, openModal, submissions,
                   sinceSuccess>>

\* Mutant: the catch block does not reset the price (line 58 missing).
TicketPriceRejectedKeepsPrice(i, e) ==
    /\ i \in 1..Len(priceFetches)
    /\ priceFetches' = Remove(priceFetches, i)
    /\ handler' = [name |-> "getTicketPrice.rejected", arg |-> e]
    /\ lastLookup' = IF IsLatest(i) THEN Null ELSE lastLookup
    /\ effects' = FetchCatch(e)
    /\ UNCHANGED <<eventId, receiverAddress, loading, ticketPrice, activeAddress,
                   transactionSigner, openModal, submissions, sinceSuccess>>

\* Mutant: the catch block of the lookup also clears the busy flag.
TicketPriceRejectedClearsLoading(i, e) ==
    /\ i \in 1..Len(priceFetches)
    /\ ticketPrice' = Null
    /\ loading' = FALSE
    /\ priceFetches' = Remove(priceFetches, i)
    /\ handler' = [name |-> "getTicketPrice.rejected", arg |-> e]
    /\ lastLookup' = IF IsLatest(i) THEN Null ELSE lastLookup
    /\ effects' = FetchCatch(e)
    /\ UNCHANGED <<eventId, receiverAddress, activeAddress,
                   transactionSigner, openModal, submissions,
                   sinceSuccess>>

\* await appClient.getTicketPrice() rejects with e: lines 56-60.
TicketPriceRejected(i, e) ==
    /\ i \in 1..Len(priceFetches)
    /\ ticketPrice' = Null
    /\ priceFetches' = Remove(priceFetches, i)
    /\ handler' = [name |-> "getTicketPrice.rejected", arg |-> e]
    /\ lastLookup' = IF IsLatest(i) THEN Null ELSE lastLookup
    /\ effects' = FetchCatch(e)
    /\ UNCHANGED <<eventId, receiverAddress, loading, activeAddress,
                   transactionSigner, openModal, submissions,
                   sinceSuccess>>

(***************************************************************************)
(* The purchase submission, handleBuyTicket, lines 66-115.                 *)
(***************************************************************************)
\* Mutant: the wallet check of lines 67-70 is missing.
PreconditionFailureNoWalletCheck(address, signer, eid, receiver, price) ==
    IF eid = <<>>
    THEN EnqueueSnackbar("Please enter an Event ID", "error")
    ELSE IF receiver = ""
    THEN EnqueueSnackbar("Please enter a receiver address", "error")
    ELSE IF ~Truthy(price) \/ LeqZero(price)
    THEN EnqueueSnackbar("Ticket price not available", "error")
    ELSE Null

\* Mutant: the eventId check comes before the wallet check.
PreconditionFailureEventIdFirst(address, signer, eid, receiver, price) ==
    IF eid = <<>>
    THEN EnqueueSnackbar("Please enter an Event ID", "error")
    ELSE IF address = NULL \/ signer = NULL
    THEN EnqueueSnackbar("Please connect your wallet first", "warning")
    ELSE IF receiver = ""
    THEN EnqueueSnackbar("Please enter a receiver address", "error")
    ELSE IF ~Truthy(price) \/ LeqZero(price)
    THEN EnqueueSnackbar("Ticket price not available", "error")
    ELSE Null

\* Mutant: line 79 tests only !ticketPrice, not ticketPrice <= 0.
PreconditionFailureNoPositiveCheck(address, signer, eid, receiver, price) ==
    IF address = NULL \/ signer = NULL
    THEN EnqueueSnackbar("Please connect your wallet first", "warning")
    ELSE IF eid = <<>>
    THEN EnqueueSnackbar("Please enter an Event ID", "error")
    ELSE IF receiver = ""
    THEN EnqueueSnackbar("Please enter a receiver address", "error")
    ELSE IF ~Truthy(price)
    THEN EnqueueSnackbar("Ticket price not available", "error")
    ELSE Null

\* The notification of the first precondition that fails, lines 67-82, or
\* Null when all hold.
PreconditionFailure(address, signer, eid, receiver, price) ==
    IF address = NULL \/ signer = NULL
    THEN EnqueueSnackbar("Please connect your wallet first", "warning")
    ELSE IF eid = <<>>
    THEN EnqueueSnackbar("Please enter an Event ID", "error")
    ELSE IF receiver = ""
    THEN EnqueueSnackbar("Please enter a receiver address", "error")
    ELSE IF ~Truthy(price) \/ LeqZero(price)
    THEN EnqueueSnackbar("Ticket price not available", "error")
    ELSE Null

\* What handleBuyTicket keeps of the render it was created in.
Closure ==
    [eventId |-> eventId, receiverAddress |-> receiverAddress,
     ticketPrice |-> ticketPrice, activeAddress |-> activeAddress,
     transactionSigner |-> transactionSigner]

\* onClick of the submit control, line 157, up to the first await (line 91).
\* A disabled control takes no click (line 158).
HandleBuyTicket ==
    LET failure == PreconditionFailure(activeAddress, transactionSigner,
                                       eventId, receiverAddress, ticketPrice)
        client  == GetAppClient(activeAddress, transactionSigner)
    IN
    /\ openModal
    /\ ~Disabled
    /\ handler' = [name |-> "handleBuyTicket", arg |-> Null]
    /\ IF failure # Null
       THEN /\ effects' = <<failure>>
            /\ UNCHANGED <<loading, submissions>>
       ELSE IF client.threw
       THEN \* setLoading(true), catch, finally setLoading(false)
            /\ effects' = BookingCatch(client.error)
            /\ loading' = FALSE
            /\ UNCHANGED submissions
       ELSE /\ Len(submissions) < MaxSubmissions
            /\ loading' = TRUE
            /\ submissions' = Append(submissions,
                                     [pc |-> "getTransactionParams",
                                      closure |-> Closure])
            /\ effects' = <<Call("getTransactionParams", <<>>)>>
    /\ UNCHANGED <<eventId, receiverAddress, ticketPrice, activeAddress,
                   transactionSigner, openModal, priceFetches,
                   sinceSuccess, lastLookup>>

\* await algodClient.getTransactionParams().do() resolves: lines 92-99, up
\* to the await of bookTicket.
TransactionParamsResolved(i) ==
    /\ i \in 1..Len(submissions)
    /\ submissions[i].pc = "getTransactionParams"
    /\ LET c          == submissions[i].closure
           paymentTxn == MakePaymentTxn(c.activeAddress, c.receiverAddress,
                                        MulDouble(c.ticketPrice, MicroPerAlgo),
                                        "suggestedParams")
       IN  /\ submissions' = [submissions EXCEPT ![i].pc = "bookTicket"]
           /\ handler' = [name |-> "getTransactionParams.resolved", arg |-> Null]
           /\ effects' = <<Call("bookTicket", <<Number(c.eventId), paymentTxn>>)>>
    /\ UNCHANGED <<eventId, receiverAddress, loading, ticketPrice, activeAddress,
                   transactionSigner, openModal, priceFetches,
                   sinceSuccess, lastLookup>>

\* Mutant: the finally block (lines 112-114) is missing.
SubmissionRejectedKeepsLoading(i, e) ==
    /\ i \in 1..Len(submissions)
    /\ effects' = BookingCatch(e)
    /\ submissions' = Remove(submissions, i)
    /\ handler' = [name |-> submissions[i].pc \o ".rejected", arg |-> e]
    /\ UNCHANGED <<eventId, receiverAddress, loading, ticketPrice, activeAddress,
                   transactionSigner, openModal, priceFetches, sinceSuccess,
                   lastLookup>>

\* An await of the try block rejects with e: catch and finally, lines 108-114.
SubmissionRejected(i, e) ==
    /\ i \in 1..Len(submissions)
    /\ effects' = BookingCatch(e)
    /\ loading' = FALSE
    /\ submissions' = Remove(submissions, i)
    /\ handler' = [name |-> submissions[i].pc \o ".rejected", arg |-> e]
    /\ UNCHANGED <<eventId, receiverAddress, ticketPrice, activeAddress,
                   transactionSigner, openModal, priceFetches,
                   sinceSuccess, lastLookup>>

\* await appClient.bookTicket(...) resolves with response: lines 100-107 and
\* finally, then the effect for the render with eventId = ''.
BookTicketResolved(i, response) ==
    LET eff == PriceEffect(<<>>, activeAddress, transactionSigner) IN
    /\ i \in 1..Len(submissions)
    /\ submissions[i].pc = "bookTicket"
    /\ effects' =
           <<EnqueueSnackbar("Ticket booked successfully! Ticket ID: " \o response,
                             "success"),
             Call("closeModal", <<>>),
             Call("dispatchEvent", <<"refreshTickets">>)>> \o eff.calls
    /\ openModal' = FALSE
    /\ eventId' = <<>>
    /\ receiverAddress' = DefaultReceiver
    /\ ticketPrice' = Null
    /\ loading' = FALSE
    /\ submissions' = Remove(submissions, i)
    /\ handler' = [name |-> "bookTicket.resolved", arg |-> response]
    /\ sinceSuccess' = TRUE
    /\ lastLookup' = IF eventId # <<>> THEN Null ELSE lastLookup
    /\ UNCHANGED <<activeAddress, transactionSigner, priceFetches>>

Next ==
    \/ \E v \in EventIds : ChangeEventId(v)
    \/ \E v \in ReceiverAddresses : ChangeReceiverAddress(v)
    \/ \E a \in Addresses, s \in Signers : WalletChange(a, s)
    \/ CloseClicked
    \/ OpenModal
    \/ \E i \in 1..MaxPriceFetches, p \in PriceMicros : TicketPriceResolved(i, p)
    \/ \E i \in 1..MaxPriceFetches, e \in Failures : TicketPriceRejected(i, e)
    \/ HandleBuyTicket
    \/ \E i \in 1..MaxSubmissions : TransactionParamsResolved(i)
    \/ \E i \in 1..MaxSubmissions, e \in Failures : SubmissionRejected(i, e)
    \/ \E i \in 1..MaxSubmissions, r \in TicketIds : BookTicketResolved(i, r)

Spec == Init /\ [][Next]_vars

\* A remote call of a submission settles: the call it awaits (lines 91, 99)
\* resolves or rejects and the continuation runs.
SubmissionSettles ==
    \/ \E i \in 1..MaxSubmissions, e \in Failures : SubmissionRejected(i, e)
    \/ \E i \in 1..MaxSubmissions : TransactionParamsResolved(i)
    \/ \E i \in 1..MaxSubmissions, r \in TicketIds : BookTicketResolved(i, r)

\* The program under the assumption that every remote call a submission
\* awaits settles eventually; nothing is assumed of the user, the wallet or
\* the price lookup.
FairSpec == Spec /\ WF_vars(SubmissionSettles)

(***************************************************************************)
(* Properties.                                                             *)
(***************************************************************************)
Calls(es, name) == SelectSeq(es, LAMBDA c : c.call = name)

RemoteCallNames == {"getTicketPrice", "getTransactionParams", "bookTicket"}

NoRemoteCall(es) == \A k \in 1..Len(es) : es[k].call \notin RemoteCallNames

WalletConnected == activeAddress # NULL /\ transactionSigner # NULL

ConnectWalletWarning == EnqueueSnackbar("Please connect your wallet first", "warning")

EnterEventIdError == EnqueueSnackbar("Please enter an Event ID", "error")

EnterReceiverError == EnqueueSnackbar("Please enter a receiver address", "error")

PriceNotAvailableError == EnqueueSnackbar("Ticket price not available", "error")

\* C1: a submission made while the wallet is not connected (no activeAddress
\* or no transactionSigner) makes no remote call, bookTicket included; all it
\* does is enqueue the one 'Please connect your wallet first' warning, and it
\* leaves eventId, receiverAddress, ticketPrice and loading as they were.
C1_NoWalletOnlyWarns ==
    [][(handler'.name = "handleBuyTicket" /\ ~WalletConnected)
         => /\ effects' = <<ConnectWalletWarning>>
            /\ NoRemoteCall(effects')
            /\ UNCHANGED <<eventId, receiverAddress, ticketPrice, loading,
                           submissions, priceFetches>>]_vars

\* C1 witness: the submit control was clicked with no wallet connected.
C1_Witness ==
    /\ handler.name = "handleBuyTicket"
    /\ ~WalletConnected
    /\ effects = <<ConnectWalletWarning>>

\* C2 as stated: a submission with an empty eventId shows the 'Please enter
\* an Event ID' error and makes no remote call, whether or not the wallet is
\* connected.
C2_EmptyEventIdAlwaysEventIdError ==
    [][(handler'.name = "handleBuyTicket" /\ eventId = <<>>)
         => /\ effects' = <<EnterEventIdError>>
            /\ NoRemoteCall(effects')]_vars

\* C2 as amended: a submission with an empty eventId makes no remote call; it
\* shows the 'Please enter an Event ID' error when the wallet is connected and
\* the 'Please connect your wallet first' warning when it is not.
C2_EmptyEventIdError ==
    [][(handler'.name = "handleBuyTicket" /\ eventId = <<>>)
         => /\ NoRemoteCall(effects')
            /\ effects' = <<IF WalletConnected THEN EnterEventIdError
                            ELSE ConnectWalletWarning>>
            /\ UNCHANGED <<loading, submissions>>]_vars

\* C2 witness: the submit control was clicked with a connected wallet and an
\* empty eventId.
C2_Witness ==
    /\ handler.name = "handleBuyTicket"
    /\ WalletConnected
    /\ eventId = <<>>
    /\ effects = <<EnterEventIdError>>

\* C3, first part: the step that follows a resolved bookTicket call resets
\* eventId, receiverAddress and ticketPrice, calls closeModal once and
\* dispatches 'refreshTickets' once; no other step dispatches it.
C3_SuccessResets ==
    [][/\ handler'.name = "bookTicket.resolved"
            => /\ eventId' = <<>>
               /\ receiverAddress' = DefaultReceiver
               /\ ticketPrice' = Null
               /\ Calls(effects', "closeModal") = <<Call("closeModal", <<>>)>>
               /\ Calls(effects', "dispatchEvent")
                      = <<Call("dispatchEvent", <<"refreshTickets">>)>>
       /\ handler'.name # "bookTicket.resolved"
            => Calls(effects', "dispatchEvent") = <<>>]_vars

\* C3, second part: after a successful booking ticketPrice stays null until
\* the user enters a new identifier.
C3_StaysNull == [](sinceSuccess => ticketPrice = Null)

\* C3: after a booking call that resolves successfully eventId is empty,
\* receiverAddress is the default, ticketPrice is null and stays null until
\* the user enters a new identifier, closeModal was called and exactly one
\* 'refreshTickets' signal was emitted; no other path emits that signal.
C3_SuccessResetsAndStaysNull == C3_SuccessResets /\ C3_StaysNull

\* C4 as stated: when getTransactionParams or bookTicket rejects, the step
\* calls neither closeModal nor dispatchEvent, leaves eventId and
\* receiverAddress alone and enqueues one error notification whose text
\* carries the failure's message.
C4_FailureShowsFailureMessage ==
    [][handler'.name \in {"getTransactionParams.rejected", "bookTicket.rejected"}
         => /\ Calls(effects', "closeModal") = <<>>
            /\ Calls(effects', "dispatchEvent") = <<>>
            /\ UNCHANGED <<openModal, eventId, receiverAddress>>
            /\ Calls(effects', "enqueueSnackbar")
                   = <<EnqueueSnackbar("Error booking ticket: " \o handler'.arg.message,
                                       "error")>>]_vars

\* C4 as amended: as above, but the notification's text is 'Error booking
\* ticket: ' followed by the failure's message when the failure is an Error,
\* and by 'Unknown error' when it is any other thrown value.
C4_FailureKeepsDialog ==
    [][handler'.name \in {"getTransactionParams.rejected", "bookTicket.rejected"}
         => /\ Calls(effects', "closeModal") = <<>>
            /\ Calls(effects', "dispatchEvent") = <<>>
            /\ NoRemoteCall(effects')
            /\ UNCHANGED <<openModal, eventId, receiverAddress, ticketPrice>>
            /\ Calls(effects', "enqueueSnackbar")
                   = <<EnqueueSnackbar(
                         IF handler'.arg.isError
                         THEN "Error booking ticket: " \o handler'.arg.message
                         ELSE "Error booking ticket: Unknown error",
                         "error")>>]_vars

\* C4 witness: bookTicket rejected with an Error while the dialog was open
\* with the user's input in it.
C4_Witness ==
    /\ handler.name = "bookTicket.rejected"
    /\ handler.arg.isError
    /\ openModal
    /\ eventId # <<>>
    /\ receiverAddress = "RECEIVER_B"
    /\ Len(effects) = 2
    /\ effects[2] = EnqueueSnackbar("Error booking ticket: network down", "error")

\* C5: loading holds only while a submission that passed every precondition
\* is suspended at one of its awaits, and the submit control is disabled
\* whenever loading holds or ticketPrice is null.
C5_LoadingOnlyWhileSubmitting ==
    /\ loading =>
         \E i \in 1..Len(submissions) :
            LET c == submissions[i].closure IN
            /\ submissions[i].pc \in {"getTransactionParams", "bookTicket"}
            /\ c.activeAddress # NULL /\ c.transactionSigner # NULL
            /\ c.eventId # <<>>
            /\ c.receiverAddress # ""
            /\ Truthy(c.ticketPrice) /\ ~LeqZero(c.ticketPrice)
    /\ (loading \/ ticketPrice = Null) => Disabled

\* C5 witness: a submission is waiting for bookTicket, loading holds and the
\* control is disabled although a price is shown.
C5_Witness ==
    /\ loading
    /\ Len(submissions) = 1
    /\ submissions[1].pc = "bookTicket"
    /\ ticketPrice # Null
    /\ Disabled

IsPositive(x) == Truthy(x) /\ ~LeqZero(x)

\* Whether the values a submission captured pass the four preconditions.
PassesPreconditions(c) ==
    /\ c.activeAddress # NULL /\ c.transactionSigner # NULL
    /\ c.eventId # <<>>
    /\ c.receiverAddress # ""
    /\ IsPositive(c.ticketPrice)

\* C6: handleBuyTicket tests wallet, eventId, receiverAddress and ticketPrice
\* (available and positive) in that order and shows the notification of the
\* first one that is missing; the four notifications differ; a submission
\* with a missing precondition changes no state and makes no remote call; and
\* bookTicket is called only for a submission whose four preconditions held.
C6_PreconditionOrder ==
    [][/\ handler'.name = "handleBuyTicket"
            => /\ ~WalletConnected => effects' = <<ConnectWalletWarning>>
               /\ (WalletConnected /\ eventId = <<>>)
                      => effects' = <<EnterEventIdError>>
               /\ (WalletConnected /\ eventId # <<>> /\ receiverAddress = "")
                      => effects' = <<EnterReceiverError>>
               /\ (WalletConnected /\ eventId # <<>> /\ receiverAddress # ""
                     /\ ~IsPositive(ticketPrice))
                      => effects' = <<PriceNotAvailableError>>
               /\ ~PassesPreconditions(Closure)
                      => /\ NoRemoteCall(effects')
                         /\ UNCHANGED <<eventId, receiverAddress, ticketPrice,
                                        loading, openModal, activeAddress,
                                        transactionSigner, submissions,
                                        priceFetches>>
       /\ Len(Calls(effects', "bookTicket")) > 0
            => \E i \in 1..Len(submissions) :
                  /\ submissions[i].pc = "getTransactionParams"
                  /\ PassesPreconditions(submissions[i].closure)
       /\ Cardinality({
              PreconditionFailure(NULL, NULL, <<>>, "", Null).args[1],
              PreconditionFailure("ADDR_A", "signer", <<>>, "", Null).args[1],
              PreconditionFailure("ADDR_A", "signer", <<"4", "2">>, "", Null).args[1],
              PreconditionFailure("ADDR_A", "signer", <<"4", "2">>, "RECEIVER_B",
                                  Null).args[1]}) = 4]_vars

\* C6 witness: the control was clicked with a wallet but with neither an
\* eventId nor a receiverAddress; the notification is the eventId one.
C6_Witness ==
    /\ handler.name = "handleBuyTicket"
    /\ WalletConnected
    /\ eventId = <<>>
    /\ receiverAddress = ""
    /\ effects = <<EnterEventIdError>>

\* The fourth precondition's notification is reachable too (a price that is
\* shown but not positive).
C6_PriceCaseReached ==
    /\ handler.name = "handleBuyTicket"
    /\ effects = <<PriceNotAvailableError>>

\* C7, as the code computes it: the step after getTransactionParams makes one
\* bookTicket call with Number(eventId) and the payment instruction built from
\* the captured activeAddress, receiverAddress and ticketPrice * 1_000_000.
C7_BookTicketAsComputed ==
    [][handler'.name = "getTransactionParams.resolved"
         => \E i \in 1..Len(submissions) :
               LET c == submissions[i].closure IN
               /\ submissions[i].pc = "getTransactionParams"
               /\ submissions'[i].pc = "bookTicket"
               /\ Len(effects') = 1
               /\ effects'[1].call = "bookTicket"
               /\ effects'[1].args[1] = Number(c.eventId)
               /\ effects'[1].args[2].sender = c.activeAddress
               /\ effects'[1].args[2].receiver = c.receiverAddress
               /\ effects'[1].args[2].amount = MulDouble(c.ticketPrice, MicroPerAlgo)]_vars

\* C7: each submission that passed the preconditions calls bookTicket once,
\* with the numeric value of the captured eventId and a payment instruction
\* whose sender is the captured wallet address, whose receiver is the captured
\* receiverAddress and whose amount is ticketPrice * 1,000,000, that is the
\* micro-unit price the price fetch returned.
C7_BookTicketArguments ==
    [][handler'.name = "getTransactionParams.resolved"
         => \E i \in 1..Len(submissions) :
               LET c == submissions[i].closure IN
               /\ submissions[i].pc = "getTransactionParams"
               /\ submissions'[i].pc = "bookTicket"
               /\ Len(effects') = 1
               /\ effects'[1].call = "bookTicket"
               /\ effects'[1].args[1] = Number(c.eventId)
               /\ effects'[1].args[2].sender = c.activeAddress
               /\ effects'[1].args[2].receiver = c.receiverAddress
               /\ \A p \in PriceMicros :
                     c.ticketPrice = DivDouble(p, MicroPerAlgo)
                        => effects'[1].args[2].amount = DoubleOfInt(p)]_vars

\* C8: when getTicketPrice() resolves with micro-unit value p, ticketPrice is
\* p / 1,000,000 (the nearest double; the exact quotient when p is a whole
\* number of millions).
C8_PriceIsMicroDividedByMillion ==
    handler.name = "getTicketPrice.resolved"
        => /\ ticketPrice = DivDouble(handler.arg, MicroPerAlgo)
           /\ handler.arg % 1000000 = 0
                 => ticketPrice = DoubleOfInt(handler.arg \div 1000000)

\* C8 witness: a fetch for a non-empty eventId with a connected wallet
\* resolved with 4,100,000.
C8_Witness ==
    /\ handler.name = "getTicketPrice.resolved"
    /\ handler.arg = 4100000
    /\ eventId = <<"4", "2">>
    /\ WalletConnected
    /\ ticketPrice # Null

\* C9: when getTicketPrice() rejects, ticketPrice becomes null and exactly one
\* error notification is shown; the step issues no new fetch, and a
\* getTicketPrice() call is issued only by a step that changes eventId or the
\* wallet connection.
C9_FetchFailureResets ==
    [][/\ handler'.name = "getTicketPrice.rejected"
            => /\ ticketPrice' = Null
               /\ Calls(effects', "enqueueSnackbar")
                      = <<EnqueueSnackbar(IF handler'.arg.isError
                                          THEN handler'.arg.message
                                          ELSE "Unable to fetch ticket price",
                                          "error")>>
               /\ NoRemoteCall(effects')
               /\ Len(priceFetches') = Len(priceFetches) - 1
       /\ Len(Calls(effects', "getTicketPrice")) > 0
            => \/ eventId' # eventId
               \/ activeAddress' # activeAddress
               \/ transactionSigner' # transactionSigner]_vars

\* C9 witness: the only fetch in flight was rejected.
C9_Witness ==
    /\ handler.name = "getTicketPrice.rejected"
    /\ ticketPrice = Null
    /\ priceFetches = <<>>
    /\ eventId # <<>>
    /\ WalletConnected
    /\ Len(effects) = 2

\* C10: every step that changes eventId or the wallet connection runs the
\* price lookup: with a non-empty eventId and a connected wallet it issues
\* getTicketPrice(), otherwise it sets ticketPrice to null with no remote call
\* and no notification of its own; getTicketPrice() is issued in no other
\* situation.
C10_LookupOnChange ==
    [][/\ (\/ eventId' # eventId
           \/ activeAddress' # activeAddress
           \/ transactionSigner' # transactionSigner)
            => IF eventId' = <<>> \/ activeAddress' = NULL \/ transactionSigner' = NULL
               THEN /\ ticketPrice' = Null
                    /\ NoRemoteCall(effects')
                    /\ priceFetches' = priceFetches
                    /\ handler'.name \in {"setEventId", "useWallet"}
                          => effects' = <<>>
               ELSE /\ effects' = <<Call("getTicketPrice", <<>>)>>
                    /\ Len(priceFetches') = Len(priceFetches) + 1
       /\ Len(Calls(effects', "getTicketPrice")) > 0
            => eventId' # <<>> /\ activeAddress' # NULL /\ transactionSigner' # NULL]_vars

\* C10 witness: the wallet disconnected while an eventId was entered and a
\* price was being fetched; the price is null and nothing was called.
C10_Witness ==
    /\ handler.name = "useWallet"
    /\ ~WalletConnected
    /\ eventId # <<>>
    /\ Len(priceFetches) >= 1
    /\ ticketPrice = Null
    /\ effects = <<>>

\* C11: under any interleaving of clicks, renders and resolutions at most one
\* submission (getTransactionParams then bookTicket) is in flight: a click
\* starts one only when none is in flight and loading is false, and a
\* submission makes its bookTicket call in one step, once, when its
\* getTransactionParams call resolves.
C11_OneSubmissionInFlight ==
    /\ [](Len(submissions) <= 1)
    /\ [][/\ Len(submissions') > Len(submissions)
               => /\ handler'.name = "handleBuyTicket"
                  /\ submissions = <<>>
                  /\ ~loading
                  /\ loading'
          /\ Len(Calls(effects', "bookTicket")) <= 1
          /\ Len(Calls(effects', "bookTicket")) = 1
               => /\ Len(submissions) = 1
                  /\ submissions[1].pc = "getTransactionParams"
                  /\ submissions'[1].pc = "bookTicket"]_vars

\* C11 witness: while a submission waits for getTransactionParams the dialog
\* is open and was rendered again with a price (a price lookup resolved), and
\* the control stays disabled.
C11_Witness ==
    /\ Len(submissions) = 1
    /\ submissions[1].pc = "getTransactionParams"
    /\ handler.name = "getTicketPrice.resolved"
    /\ Truthy(ticketPrice)
    /\ openModal
    /\ loading
    /\ Disabled

\* C12: a price lookup superseded by a later run of the effect has its result
\* ignored: whatever the order in which overlapping getTicketPrice() calls
\* settle, once none is in flight ticketPrice is what the most recent run of
\* the effect came to (the price it fetched, or null when it found a
\* precondition missing or its call failed).
C12_LatestLookupWins == priceFetches = <<>> => ticketPrice = lastLookup

\* The continuations of the price lookup and the steps of the submission.
FetchSteps == {"getTicketPrice.resolved", "getTicketPrice.rejected"}

SubmissionSteps ==
    {"handleBuyTicket", "getTransactionParams.resolved",
     "getTransactionParams.rejected", "bookTicket.rejected",
     "bookTicket.resolved"}

\* C13 as stated: the price lookup and the submission never overlap (no
\* getTicketPrice() call is in flight, or settles, while a submission is in
\* flight) and no state variable is written by both: ticketPrice, which the
\* lookup writes, is left alone by every step of the submission.
C13_DisjointAndNonOverlapping ==
    /\ [](submissions # <<>> => priceFetches = <<>>)
    /\ [][/\ handler'.name \in FetchSteps => submissions = <<>>
          /\ handler'.name \in SubmissionSteps => ticketPrice' = ticketPrice]_vars

\* C13 as amended: the two operations share ticketPrice and nothing else.  A
\* continuation of the lookup changes ticketPrice only; loading changes only
\* in steps of the submission; a step of the submission other than the success
\* step changes none of eventId, receiverAddress and ticketPrice, and the
\* success step sets ticketPrice to null.  (That the two do overlap is the
\* witness.)
C13_SharedTicketPriceOnly ==
    [][/\ handler'.name \in FetchSteps
            => UNCHANGED <<eventId, receiverAddress, loading, openModal,
                           activeAddress, transactionSigner, submissions>>
       /\ loading' # loading => handler'.name \in SubmissionSteps
       /\ (handler'.name \in SubmissionSteps /\ handler'.name # "bookTicket.resolved")
            => UNCHANGED <<eventId, receiverAddress, ticketPrice, priceFetches>>
       /\ handler'.name = "bookTicket.resolved"
            => ticketPrice' = Null /\ priceFetches' = priceFetches]_vars

\* C13 witness: a getTicketPrice() call resolved, and another is still in
\* flight, while a submission waits for bookTicket.
C13_Witness ==
    /\ handler.name = "getTicketPrice.resolved"
    /\ Len(priceFetches) = 1
    /\ Len(submissions) = 1
    /\ submissions[1].pc = "bookTicket"
    /\ loading

\* C14: in every state in which no getTicketPrice() call is in flight,
\* ticketPrice is non-null only if eventId is non-empty and the wallet is
\* connected; so the submit control is then enabled only for a non-empty
\* identifier and a connected wallet.
C14_PriceOnlyWithIdAndWallet ==
    priceFetches = <<>>
        => /\ ticketPrice # Null => (eventId # <<>> /\ WalletConnected)
           /\ ~Disabled => (eventId # <<>> /\ WalletConnected)

\* C15: all dialog state is discarded when the dialog closes: when the dialog
\* is opened again after it was closed through the Close control, eventId is
\* empty, receiverAddress is the default, ticketPrice is null and loading is
\* false.  (Stated for the dialog reopened right after the Close control was
\* used.)
C15_CloseDiscardsState ==
    [][(handler.name = "closeModal" /\ handler'.name = "openModal")
         => /\ eventId' = <<>>
            /\ receiverAddress' = DefaultReceiver
            /\ ticketPrice' = Null
            /\ loading' = FALSE]_vars

\* C16: the price lookup is keyed on eventId: every getTicketPrice request
\* carries (the numeric value of) the eventId whose entry triggered it.
C16_LookupCarriesEventId ==
    [][\A k \in 1..Len(effects') :
          effects'[k].call = "getTicketPrice"
             => /\ Len(effects'[k].args) = 1
                /\ effects'[k].args[1] = Number(eventId')]_vars

\* C17: a submission that set loading to true does not get stuck: given that
\* the remote call it awaits settles, loading becomes false again; over its
\* steps exactly one notification is shown for it, a success or an error one,
\* in the step that ends it; and a rejected call ends in the catch block and
\* the finally block, never outside the handler.
C17_SubmissionEnds ==
    /\ loading ~> ~loading
    /\ [][/\ (handler'.name = "handleBuyTicket" /\ loading')
               => /\ Calls(effects', "enqueueSnackbar") = <<>>
                  /\ Len(submissions') = Len(submissions) + 1
          /\ handler'.name = "getTransactionParams.resolved"
               => /\ Calls(effects', "enqueueSnackbar") = <<>>
                  /\ Len(submissions') = Len(submissions)
                  /\ loading'
          /\ Len(submissions') < Len(submissions)
               => /\ Len(Calls(effects', "enqueueSnackbar")) = 1
                  /\ Calls(effects', "enqueueSnackbar")[1].args[2]
                         \in {"success", "error"}
                  /\ ~loading'
          /\ handler'.name \in {"getTransactionParams.rejected",
                                "bookTicket.rejected"}
               => /\ effects' = BookingCatch(handler'.arg)
                  /\ Len(submissions') < Len(submissions)]_vars

\* C17 witness: getTransactionParams was rejected with a value that is not an
\* Error; the submission ended with loading false and one error notification.
C17_Witness ==
    /\ handler.name = "getTransactionParams.rejected"
    /\ ~handler.arg.isError
    /\ ~loading
    /\ submissions = <<>>
    /\ Calls(effects, "enqueueSnackbar")
           = <<EnqueueSnackbar("Error booking ticket: Unknown error", "error")>>

====
